---- MODULE Spec2Model ----
(***************************************************************************)
(* Usage telemetry of the Hopsworks client (hopsworks_common/usage.py):    *)
(* the enable gate, the method_logger decorator, the call counter, the     *)
(* sampler, the ThreadPoolExecutor that ships the events, the identity     *)
(* provider with its user_id file, and the import of the module; and      *)
(* append_rich_handler_to_logger of helpers/logging_utils.py.              *)
(***************************************************************************)
EXTENDS Integers, Sequences, FiniteSets, TLC

(***************************************************************************)
(* Bounds of the model.                                                    *)
(***************************************************************************)
\* calls entered in one behaviour of Spec (the gate and the wrapper)
MaxCalls == 2

\* calls entered in one behaviour of SpecPool (the wrapper and the executor)
MaxPoolCalls == 3

\* calls entered in one behaviour of FairPool (a caller and busy workers)
MaxBusyCalls == 4

\* calls entered in one behaviour of SpecCounter (concurrent callers)
MaxCounterCalls == 3

\* calls entered in one behaviour of SpecSampler (a long sequential run)
MaxSamplerCalls == 101

\* calls entered in one behaviour of SpecIdentity (workers resolving the id)
MaxIdentityCalls == 2

\* get_env() calls per process and processes started in SpecEnv
MaxEnvCalls == 2
MaxProcesses == 3

\* calls entered in one behaviour of SpecImport
MaxImportCalls == 2

\* calls entered in one behaviour of SpecKeys (several wrapped functions)
MaxKeyCalls == 2

\* calls entered in one behaviour of FairWorkers (scheduled workers)
MaxFairCalls == 3

\* handlers on the logger at the start, and append_rich_handler_to_logger
\* calls made, in one behaviour of SpecLogging
MaxHandlers == 4
MaxLoggingCalls == 2

\* threads of the host application that call wrapped references
Callers == {"t1", "t2"}

(***************************************************************************)
(* Program constants.                                                      *)
(***************************************************************************)
\* default of NUM_HOPSWORKS_USAGE_EXECUTORS, the max_workers of _executor
NumExecutors == 2
Workers == 1..NumExecutors

\* the allow-list of _is_target_hostname
TargetHostnames == {"c.app.hopsworks.ai"}

\* the tiers of should_sample
SampleAlways == 100
SampleTenth == 1000
SampleHundredth == 10000

None == "None"

(***************************************************************************)
(* Inputs: hostnames and versions given to init_usage, values of the       *)
(* ENABLE_HOPSWORKS_USAGE variable, the callables handed to method_logger  *)
(* and the arguments they are called with.                                 *)
(***************************************************************************)
Hostnames == {"c.app.hopsworks.ai", "demo.hops.works"}
Versions == {"4.1.0"}
EnvValues == {"true", "True", "false"}

\* A callable: __module__, __name__ (NoAttr for a callable object that has
\* no __name__, such as a functools.partial), and its identity.
NoAttr == "<no attribute>"
Funcs ==
  { [id |-> "get", module |-> "hsfs.feature_store", name |-> "get"],
    [id |-> "partial", module |-> "functools", name |-> NoAttr] }

\* Methods of two classes of one module, as the SDK decorates them, and a
\* function of another module.
KeyFuncs ==
  { [id |-> "FeatureGroup.save", module |-> "hsfs.feature_group",
     name |-> "save"],
    [id |-> "ExternalFeatureGroup.save", module |-> "hsfs.feature_group",
     name |-> "save"],
    [id |-> "get", module |-> "hsfs.feature_store", name |-> "get"] }

Args == {1, 0, -1}

Return(v) == [kind |-> "return", value |-> v, type |-> "", msg |-> ""]
Raise(type, msg) == [kind |-> "raise", value |-> 0, type |-> type, msg |-> msg]
NoOutcome == [kind |-> "none", value |-> 0, type |-> "", msg |-> ""]

\* the exception classes that derive from Exception (caught by
\* `except Exception`); KeyboardInterrupt derives from BaseException only
ExceptionClasses == {"ValueError", "AttributeError", "RuntimeError", "OSError"}
IsException(o) == o.kind = "raise" /\ o.type \in ExceptionClasses

\* func(*args, **kwargs): what the wrapped callable does with an argument
Call(func, a) ==
  CASE a > 0 -> Return(a + 1)
    [] a = 0 -> Raise("ValueError", "bad input")
    [] OTHER -> Raise("KeyboardInterrupt", "")

(***************************************************************************)
(* State.                                                                  *)
(***************************************************************************)
VARIABLES
  is_enabled,        \* _is_enabled
  backend_hostname,  \* _backend_hostname
  backend_version,   \* _backend_version
  method_counts,     \* _method_counter.method_counts: key -> count
  refs,              \* the references method_logger has returned
  pc,                \* per caller: where it is in a call
  cur,               \* per caller: the locals of the call in progress
  queue,             \* the work queue of _executor
  worker,            \* per worker of _executor: what it is running
  pool_shutdown,     \* the executor refuses new futures (interpreter exit)
  ncalls,            \* calls entered so far
  logged,            \* key -> calls entered with logging on
  discarded,         \* jobs that failed in a worker
  enable_override,   \* enable() was called after the last init_usage
  last_op,           \* the init_usage call that was the last step, if any
  user_id,           \* _env_attr._user_id
  home,              \* ~/.hopsworks and the user_id file in it
  idt,               \* per thread: where it is in get_user_id
  file_ops,          \* opens of the user_id file by this process
  returned,          \* the values get_user_id has returned
  first_id,          \* the identifier first written to the user_id file
  process,           \* processes started so far on this home directory
  imported,          \* how the import of the module ended
  completed,         \* the calls whose job a worker has run to its end
  handlers,          \* logger.handlers of the logger worked on
  lh,                \* the append_rich_handler_to_logger call in progress
  rich_handler_global \* _rich_handler of helpers/logging_utils.py

vars == <<is_enabled, backend_hostname, backend_version, method_counts, refs,
          pc, cur, queue, worker, pool_shutdown, ncalls, logged, discarded,
          enable_override, last_op, user_id, home, idt, file_ops, returned,
          first_id, process, imported, completed, handlers, lh,
          rich_handler_global>>

log_vars == <<handlers, lh, rich_handler_global>>

ident_vars == <<user_id, home, idt, file_ops, returned, first_id, process>>

gate_vars == <<is_enabled, backend_hostname, backend_version, enable_override>>
call_vars == <<pc, cur, ncalls, logged>>
pool_vars == <<queue, worker, discarded, completed>>

(***************************************************************************)
(* The pure parts of usage.py.                                             *)
(***************************************************************************)
\* str.lower() on the values of EnvValues
Lower(v) == IF v = "True" THEN "true" ELSE v

\* _is_enabled = os.environ.get("ENABLE_HOPSWORKS_USAGE", "true").lower() == "true"
IsEnabledFromEnv(v) == Lower(v) = "true"

\* _is_target_hostname(hostname)
is_target_hostname(hostname) == hostname \in TargetHostnames

(***************************************************************************)
(* Text, as the sequence of its characters: the user_id file, the          *)
(* identifier and the value of NUM_HOPSWORKS_USAGE_EXECUTORS.              *)
(***************************************************************************)
Whitespace == {" ", "\t", "\n", "\r"}

\* a strip that always drops the last character
rstrip_last(text) ==
  IF text = <<>> THEN text ELSE SubSeq(text, 1, Len(text) - 1)

\* str.rstrip()
RECURSIVE rstrip(_)
rstrip(text) ==
  IF text # <<>> /\ text[Len(text)] \in Whitespace
  THEN rstrip(SubSeq(text, 1, Len(text) - 1))
  ELSE text

\* str.lstrip()
RECURSIVE lstrip(_)
lstrip(text) ==
  IF text # <<>> /\ Head(text) \in Whitespace THEN lstrip(Tail(text)) ELSE text

\* str.replace(ch, "")
replace(text, ch) == SelectSeq(text, LAMBDA c : c # ch)

\* uuid.uuid4().hex: 32 hexadecimal digits; the values tried
UuidHexes ==
  { [i \in 1..32 |-> "a"],
    [i \in 1..32 |-> IF i <= 16 THEN "b" ELSE "7"] }

\* _generate_user_id(), for the hex digits of the uuid drawn
IdPrefix == <<"H", "O", "P", "S", "W", "O", "R", "K", "S", "I", "D", "=">>
ShortUuidLen == 16
generate_user_id(uuid_hex) ==
  IdPrefix \o SubSeq(replace(uuid_hex, "-"), 1, ShortUuidLen)

\* an attribute that is None or holds a text; `not attr` is true for None
\* and for the empty text
NoneText == [some |-> FALSE, text |-> <<>>]
Some(text) == [some |-> TRUE, text |-> text]
Truthy(attr) == attr.some /\ attr.text # <<>>

\* a home directory without ~/.hopsworks
FreshHome == [dir |-> FALSE, file |-> FALSE, text |-> <<>>]

\* open(user_id_file, "w") creates the file or truncates it
open_w(h) == [h EXCEPT !.file = TRUE, !.text = <<>>]

\* fw.write(text) and the close of a file opened with "w": the text goes to
\* offset 0, over what another writer has put there since the open
write_close(h, text) ==
  [h EXCEPT !.text = text \o SubSeq(h.text, Len(text) + 1, Len(h.text))]

\* int(text): optional whitespace, an optional sign, decimal digits
Digits == <<"0", "1", "2", "3", "4", "5", "6", "7", "8", "9">>
IsDigit(c) == \E d \in 1..Len(Digits) : Digits[d] = c
DigitValue(c) == (CHOOSE d \in 1..Len(Digits) : Digits[d] = c) - 1

RECURSIVE digits_value(_)
digits_value(ds) ==
  IF ds = <<>> THEN 0
  ELSE digits_value(SubSeq(ds, 1, Len(ds) - 1)) * 10 + DigitValue(ds[Len(ds)])

int(text) ==
  LET t == lstrip(rstrip(text))
      signed == t # <<>> /\ Head(t) \in {"-", "+"}
      ds == IF signed THEN Tail(t) ELSE t
  IN
    IF ds = <<>> \/ \E i \in 1..Len(ds) : ~IsDigit(ds[i])
    THEN [ok |-> FALSE, value |-> 0,
          error |-> Raise("ValueError", "invalid literal for int()")]
    ELSE [ok |-> TRUE,
          value |-> IF signed /\ Head(t) = "-" THEN 0 - digits_value(ds)
                    ELSE digits_value(ds),
          error |-> NoOutcome]

\* ThreadPoolExecutor(max_workers=n)
thread_pool_executor(n) ==
  IF n <= 0
  THEN Raise("ValueError", "max_workers must be greater than 0")
  ELSE NoOutcome

\* values of NUM_HOPSWORKS_USAGE_EXECUTORS; unset, it is "2"
DefaultNumExecutor == <<"2">>
NumExecutorValues ==
  { DefaultNumExecutor, <<" ", "1">>, <<"0">>, <<"-", "1">>,
    <<"t", "w", "o">>, <<>> }

\* _num_executor = os.environ.get(...); _executor = ThreadPoolExecutor(
\* max_workers=int(_num_executor)): how the import of the module ends
executor_from_env(num_executor) ==
  LET n == int(num_executor)
      e == IF n.ok THEN thread_pool_executor(n.value) ELSE n.error
  IN [status |-> IF e.kind = "raise" THEN "raised" ELSE "loaded",
      error |-> e,
      num_executor |-> num_executor,
      max_workers |-> IF e.kind = "raise" THEN 0 ELSE n.value]

NotImported ==
  [status |-> "unloaded", error |-> NoOutcome, num_executor |-> <<>>,
   max_workers |-> 0]


\* MethodCounter._get_method_name(m): m.__module__ + m.__name__, which raises
\* AttributeError when m has no __name__
get_method_name(m) ==
  IF m.name = NoAttr
  THEN [ok |-> FALSE, key |-> "", error |-> Raise("AttributeError", "__name__")]
  ELSE [ok |-> TRUE, key |-> m.module \o m.name, error |-> NoOutcome]

\* dict.get(s, 0)
Get(d, s) == IF s \in DOMAIN d THEN d[s] ELSE 0

\* d[s] = n
Put(d, s, n) == [k \in DOMAIN d \cup {s} |-> IF k = s THEN n ELSE d[k]]

\* MethodCounter.get_count(m), for a callable that has a key
get_count(d, m) == Get(d, get_method_name(m).key)

\* an add that stores 1 whatever it has read
add_value_reset(read) == 1

\* what MethodCounter.add(m) stores, from the count it has read
add_value(read) == read + 1

\* random.random() in thousandths: the draws the sampler is tried with
RandomDraws == {0, 5, 50, 500}

\* an event that carries the count its call stored
event_num_call_at_call(counts, job) == job.posted

\* "num_call": _method_counter.get_count(func), evaluated by the worker
\* while it builds log_data
event_num_call(counts, job) == get_count(counts, job.func)

\* a sampler that always reports only below a tenth of the first tier
should_sample_short_tier(cnt, r) ==
  IF cnt * 10 < SampleAlways THEN TRUE ELSE r < 100

\* a sampler that never reports a call
should_sample_never(cnt, r) == FALSE

\* MethodCounter.should_sample(m), cnt the count of m and r the draw
should_sample(cnt, r) ==
  IF cnt < SampleAlways THEN TRUE
  ELSE IF cnt < SampleTenth THEN r < 100
  ELSE IF cnt < SampleHundredth THEN r < 10
  ELSE r < 1

\* init_usage that sets the gate from the hostname alone
init_gate_hostname_only(gate, hostname) == is_target_hostname(hostname)

\* init_usage that leaves the gate as it is
init_gate_unchanged(gate, hostname) == gate

\* init_usage: `_is_enabled and _is_target_hostname(hostname)`
init_gate(gate, hostname) == gate /\ is_target_hostname(hostname)

\* method_logger without its `if not _is_enabled: return func`
method_logger_always_wraps(func, gate) ==
  [func |-> func, wrap_gate |-> gate, wrapped |-> TRUE]

\* method_logger(func), gate the value of _is_enabled it reads: func itself
\* when the gate is off, the wrapper otherwise
method_logger(func, gate) ==
  [func |-> func, wrap_gate |-> gate, wrapped |-> gate]

\* wrapper without the check of the gate on entry
wrapper_mode_decided_at_wrap(ref, gate) ==
  IF ~ref.wrapped THEN "raw" ELSE "log"

\* wrapper with the check of the gate inverted
wrapper_mode_inverted(ref, gate) ==
  IF ~ref.wrapped THEN "raw" ELSE IF gate THEN "pass" ELSE "log"

\* wrapper: `if not _is_enabled: return func(*args, **kwargs)`
wrapper_mode(ref, gate) ==
  IF ~ref.wrapped THEN "raw" ELSE IF ~gate THEN "pass" ELSE "log"

\* try/except without the `raise e`: the exception is swallowed
try_result_swallowed(out) ==
  IF IsException(out) THEN Return(0) ELSE out

\* wrapper, try/except: `return result`, and `except Exception as e: raise e`
try_result(out) ==
  IF IsException(out) THEN Raise(out.type, out.msg) ELSE out

\* wrapper, `exception = e`: the local is set for an Exception only
caught_exception_none(out) == NoOutcome
caught_exception(out) == IF IsException(out) THEN out ELSE NoOutcome

\* finally block without its `except Exception: pass`
finally_error_unguarded(tel) == tel

\* finally: `try: ... except Exception: pass`: what of a telemetry error
\* leaves the finally block
finally_error(tel) ==
  IF tel.kind = "raise" /\ ~IsException(tel) THEN tel ELSE NoOutcome

\* what the caller of the wrapper gets: the outcome of the try statement,
\* replaced by an error that leaves the finally block
wrapper_result(out, tel) ==
  IF finally_error(tel).kind = "raise" THEN finally_error(tel)
  ELSE try_result(out)

\* a submission that waits for a free worker
submit_ready_free_worker(q, w) == \E x \in DOMAIN w : w[x].state = "idle"

\* _executor.submit: whether the call returns without waiting, given the
\* state of the pool (the work queue is unbounded)
submit_ready(q, w) == TRUE

(***************************************************************************)
(* Calls, jobs and workers.                                                *)
(***************************************************************************)
NoRef == [func |-> [id |-> "", module |-> "", name |-> ""],
          wrap_gate |-> FALSE, wrapped |-> FALSE]

\* the locals of a call, and what the call has done so far
IdleCall ==
  [ref |-> NoRef, args |-> 0,
   entry_gate |-> FALSE,     \* _is_enabled when the call was made
   mode |-> "",              \* "raw": func itself; "pass": passthrough; "log"
   out |-> NoOutcome,        \* what func did
   exception |-> NoOutcome,  \* the local `exception`
   read |-> 0,               \* the count MethodCounter.add has read
   tel |-> NoOutcome,        \* an error raised inside the finally block
   result |-> NoOutcome,     \* what the caller got
   counted |-> 0,            \* writes of this call to method_counts
   submitted |-> 0,          \* jobs this call has put on the queue
   pool_busy |-> FALSE,      \* submitted with every worker busy and jobs pending
   entry_host |-> None,      \* _backend_hostname on entry
   entry_override |-> FALSE, \* enable_override on entry
   call_no |-> 0,            \* which call of the run this is
   would_sample |-> FALSE]   \* what should_sample says for this call's draw

\* a job is _send_log with (execution_time, func, exception); call and posted
\* record which call submitted it and the count that call stored
NoJob == [func |-> NoRef.func, exception |-> NoOutcome, call |-> 0,
          posted |-> 0]
IdleWorker == [state |-> "idle", job |-> NoJob, num_call |-> 0]

\* the threads that run get_user_id: the workers, and (0) the thread of the
\* host application that calls get_env()
IdThreads == 0..NumExecutors
IdleId == [pc |-> "idle", calls |-> 0]

\* handlers are numbered; NoHandler stands for None
NoHandler == 0 - 1
IdleLogging ==
  [pc |-> "idle", calls |-> 0,
   rich_handler |-> NoHandler,   \* the local rich_handler
   remove |-> FALSE,             \* remove_existing_handlers
   logger_given |-> FALSE,       \* logger is not None
   i |-> 0,                      \* position of the for loop's iterator
   before |-> <<>>]              \* logger.handlers when the call was made

NoOp == [op |-> "", hostname |-> "", version |-> "", gate_before |-> FALSE]

InFinally(t) == pc[t] \in {"add", "add_write", "sample"}
AllWorkersBusy == \A w \in Workers : worker[w].state # "idle"
HasKey(func) == get_method_name(func).ok
KeyOf(func) == get_method_name(func).key

InitModule ==
  /\ \E v \in EnvValues : is_enabled = IsEnabledFromEnv(v)
  /\ backend_hostname = None
  /\ backend_version = None
  /\ method_counts = <<>>
  /\ refs = {}
  /\ pc = [t \in Callers |-> "idle"]
  /\ cur = [t \in Callers |-> IdleCall]
  /\ queue = <<>>
  /\ worker = [w \in Workers |-> IdleWorker]
  /\ pool_shutdown = FALSE
  /\ ncalls = 0
  /\ logged = <<>>
  /\ discarded = 0
  /\ enable_override = FALSE
  /\ last_op = NoOp
  /\ user_id = NoneText
  /\ home = FreshHome
  /\ idt = [p \in IdThreads |-> IdleId]
  /\ file_ops = 0
  /\ returned = {}
  /\ first_id = NoneText
  /\ process = 1
  /\ imported = executor_from_env(DefaultNumExecutor)
  /\ completed = {}

\* no append_rich_handler_to_logger call is made on a logger without handlers
NoLogging ==
  /\ handlers = <<>>
  /\ lh = IdleLogging
  /\ rich_handler_global = NoHandler

Init == InitModule /\ NoLogging

(***************************************************************************)
(* The enable gate.                                                        *)
(***************************************************************************)
\* enable()
Enable ==
  /\ is_enabled' = TRUE
  /\ enable_override' = TRUE
  /\ last_op' = NoOp
  /\ UNCHANGED <<backend_hostname, backend_version, method_counts, refs,
                 call_vars, pool_vars, pool_shutdown,
                 ident_vars, imported, log_vars>>

\* disable()
Disable ==
  /\ is_enabled' = FALSE
  /\ last_op' = NoOp
  /\ UNCHANGED <<backend_hostname, backend_version, enable_override,
                 method_counts, refs, call_vars, pool_vars, pool_shutdown,
                 ident_vars, imported, log_vars>>

\* init_usage(hostname, backend_version)
InitUsage(hostname, version) ==
  /\ backend_hostname' = hostname
  /\ backend_version' = version
  /\ is_enabled' = init_gate(is_enabled, hostname)
  /\ enable_override' = FALSE
  /\ last_op' = [op |-> "init_usage", hostname |-> hostname,
                 version |-> version, gate_before |-> is_enabled]
  /\ UNCHANGED <<method_counts, refs, call_vars, pool_vars, pool_shutdown,
                 ident_vars, imported, log_vars>>

\* method_logger(func): the decorator is applied and its result kept
MethodLogger(func) ==
  /\ refs' = refs \cup {method_logger(func, is_enabled)}
  /\ last_op' = NoOp
  /\ UNCHANGED <<gate_vars, method_counts, call_vars, pool_vars, pool_shutdown,
                 ident_vars, imported, log_vars>>

(***************************************************************************)
(* A call of a reference method_logger returned, by caller t.              *)
(***************************************************************************)
\* the call is made; a wrapper reads the gate
CallEnter(t, ref, a, max) ==
  /\ pc[t] = "idle"
  /\ ncalls < max
  /\ ref \in refs
  /\ ncalls' = ncalls + 1
  /\ pc' = [pc EXCEPT ![t] = "func"]
  /\ cur' = [cur EXCEPT ![t] =
       [IdleCall EXCEPT
          !.ref = ref, !.args = a, !.call_no = ncalls + 1,
          !.entry_gate = is_enabled,
          !.mode = wrapper_mode(ref, is_enabled),
          !.entry_host = backend_hostname,
          !.entry_override = enable_override]]
  /\ logged' = IF ref.wrapped /\ is_enabled /\ HasKey(ref.func)
               THEN Put(logged, KeyOf(ref.func), Get(logged, KeyOf(ref.func)) + 1)
               ELSE logged
  /\ last_op' = NoOp
  /\ UNCHANGED <<gate_vars, method_counts, refs, pool_vars, pool_shutdown,
                 ident_vars, imported, log_vars>>

\* func(*args, **kwargs) runs; without logging its outcome is the call's
FuncRun(t) ==
  /\ pc[t] = "func"
  /\ LET out == Call(cur[t].ref.func, cur[t].args) IN
       IF cur[t].mode = "log"
       THEN /\ pc' = [pc EXCEPT ![t] = "add"]
            /\ cur' = [cur EXCEPT ![t].out = out,
                                  ![t].exception = caught_exception(out)]
       ELSE /\ pc' = [pc EXCEPT ![t] = "done"]
            /\ cur' = [cur EXCEPT ![t].out = out, ![t].result = out]
  /\ last_op' = NoOp
  /\ UNCHANGED <<gate_vars, method_counts, refs, ncalls, logged, pool_vars,
                 pool_shutdown,
                 ident_vars, imported, log_vars>>

\* finally, _method_counter.add(func): the key and the read of its count;
\* with no key the AttributeError ends the block
AddRead(t) ==
  /\ pc[t] = "add"
  /\ LET name == get_method_name(cur[t].ref.func) IN
       IF name.ok
       THEN /\ pc' = [pc EXCEPT ![t] = "add_write"]
            /\ cur' = [cur EXCEPT ![t].read = Get(method_counts, name.key)]
       ELSE /\ pc' = [pc EXCEPT ![t] = "done"]
            /\ cur' = [cur EXCEPT
                 ![t].tel = name.error,
                 ![t].result = wrapper_result(cur[t].out, name.error)]
  /\ last_op' = NoOp
  /\ UNCHANGED <<gate_vars, method_counts, refs, ncalls, logged, pool_vars,
                 pool_shutdown,
                 ident_vars, imported, log_vars>>

\* finally, _method_counter.add(func): the store
AddWrite(t) ==
  /\ pc[t] = "add_write"
  /\ method_counts' = Put(method_counts, KeyOf(cur[t].ref.func),
                          add_value(cur[t].read))
  /\ pc' = [pc EXCEPT ![t] = "sample"]
  /\ cur' = [cur EXCEPT ![t].counted = @ + 1]
  /\ last_op' = NoOp
  /\ UNCHANGED <<gate_vars, refs, ncalls, logged, pool_vars, pool_shutdown,
                 ident_vars, imported, log_vars>>

\* finally, `if exception or should_sample(func): _executor.submit(...)`,
\* and the wrapper returns; submit raises RuntimeError after shutdown
SampleSubmit(t, r) ==
  /\ pc[t] = "sample"
  /\ LET func == cur[t].ref.func
         report == \/ cur[t].exception.kind = "raise"
                   \/ should_sample(get_count(method_counts, func), r)
         tel == IF report /\ pool_shutdown
                THEN Raise("RuntimeError", "cannot schedule new futures")
                ELSE NoOutcome
     IN
       /\ report /\ ~pool_shutdown => submit_ready(queue, worker)
       /\ queue' = IF report /\ ~pool_shutdown
                   THEN Append(queue, [func |-> func,
                                       exception |-> cur[t].exception,
                                       call |-> cur[t].call_no,
                                       posted |-> add_value(cur[t].read)])
                   ELSE queue
       /\ cur' = [cur EXCEPT
            ![t].tel = tel,
            ![t].would_sample =
              should_sample(get_count(method_counts, func), r),
            ![t].submitted = IF report /\ ~pool_shutdown THEN @ + 1 ELSE @,
            ![t].pool_busy = report /\ ~pool_shutdown /\ AllWorkersBusy
                             /\ queue # <<>>,
            ![t].result = wrapper_result(cur[t].out, tel)]
  /\ pc' = [pc EXCEPT ![t] = "done"]
  /\ last_op' = NoOp
  /\ UNCHANGED <<gate_vars, method_counts, refs, ncalls, logged, worker,
                 discarded, completed, pool_shutdown,
                 ident_vars, imported, log_vars>>

\* the caller has the result and goes on
CallReturn(t) ==
  /\ pc[t] = "done"
  /\ pc' = [pc EXCEPT ![t] = "idle"]
  /\ cur' = [cur EXCEPT ![t] = IdleCall]
  /\ last_op' = NoOp
  /\ UNCHANGED <<gate_vars, method_counts, refs, ncalls, logged, pool_vars,
                 pool_shutdown,
                 ident_vars, imported, log_vars>>

(***************************************************************************)
(* The executor: NumExecutors workers on one unbounded FIFO queue.         *)
(***************************************************************************)
\* a queue from which a take removes every pending job
still_pending_none(q) == <<>>

\* the work queue after a worker has taken its head: the executor never
\* cancels a pending work item
still_pending(q) == Tail(q)

\* a worker that gives up a network call to take the next job
free_to_take_after_timeout(wk) == wk.state \in {"idle", "request"}

\* a worker thread of the executor runs one job at a time, to its end:
\* nothing bounds the time _conn.request / _conn.getresponse may take
free_to_take(wk) == wk.state = "idle"

\* a worker takes the oldest pending job
WorkerTake(w) ==
  /\ free_to_take(worker[w])
  /\ queue # <<>>
  /\ worker' = [worker EXCEPT ![w] = [IdleWorker EXCEPT !.state = "send_log",
                                                       !.job = Head(queue)]]
  /\ queue' = still_pending(queue)
  /\ last_op' = NoOp
  /\ UNCHANGED <<gate_vars, method_counts, refs, call_vars, discarded,
                 completed,
                 pool_shutdown,
                 ident_vars, imported, log_vars>>

\* _send_log builds log_data (num_call is read here) and _send_log_with_data
\* starts the request; an error of the identity provider or of json.dumps
\* ends the job, kept in a future nobody reads
SendLog(w, ok) ==
  /\ worker[w].state = "send_log"
  /\ IF ok
     THEN /\ worker' = [worker EXCEPT
                ![w].state = "request",
                ![w].num_call = event_num_call(method_counts, worker[w].job)]
          /\ UNCHANGED <<discarded, completed>>
     ELSE /\ worker' = [worker EXCEPT ![w] = IdleWorker]
          /\ discarded' = discarded + 1
          /\ completed' = completed \cup {worker[w].job.call}
  /\ last_op' = NoOp
  /\ UNCHANGED <<gate_vars, method_counts, refs, call_vars, queue,
                 pool_shutdown,
                 ident_vars, imported, log_vars>>

\* _conn.request / _conn.getresponse return, or raise; until then the worker
\* is blocked in the network call
NetDone(w, ok) ==
  /\ worker[w].state = "request"
  /\ worker' = [worker EXCEPT ![w] = IdleWorker]
  /\ discarded' = IF ok THEN discarded ELSE discarded + 1
  /\ completed' = completed \cup {worker[w].job.call}
  /\ last_op' = NoOp
  /\ UNCHANGED <<gate_vars, method_counts, refs, call_vars, queue,
                 pool_shutdown,
                 ident_vars, imported, log_vars>>

\* the interpreter exits: the executor takes no new futures
InterpreterExit ==
  /\ ~pool_shutdown
  /\ pool_shutdown' = TRUE
  /\ last_op' = NoOp
  /\ UNCHANGED <<gate_vars, method_counts, refs, call_vars, pool_vars,
                 ident_vars, imported, log_vars>>

(***************************************************************************)
(* The identity provider: EnvironmentAttribute.get_user_id, run by thread  *)
(* p, one statement at a time.                                             *)
(***************************************************************************)
prog_vars == <<gate_vars, method_counts, refs, call_vars, pool_shutdown,
               imported, log_vars>>

\* `if not self._user_id:`
GetUserId(p) ==
  /\ idt[p].pc = "idle"
  /\ idt' = [idt EXCEPT
       ![p].pc = IF Truthy(user_id) THEN "return" ELSE "dir_exists",
       ![p].calls = @ + 1]
  /\ last_op' = NoOp
  /\ UNCHANGED <<prog_vars, pool_vars, user_id, home, file_ops, returned,
                 first_id, process>>

\* _create_hopsworks_dir_if_not_exist: `if not os.path.exists(HOPSWORKS_DIR)`
DirExists(p) ==
  /\ idt[p].pc = "dir_exists"
  /\ idt' = [idt EXCEPT
       ![p].pc = IF home.dir THEN "file_exists" ELSE "makedirs"]
  /\ last_op' = NoOp
  /\ UNCHANGED <<prog_vars, pool_vars, user_id, home, file_ops, returned,
                 first_id, process>>

\* os.makedirs(HOPSWORKS_DIR): FileExistsError if the directory is there
MakeDirs(p) ==
  /\ idt[p].pc = "makedirs"
  /\ IF home.dir
     THEN /\ idt' = [idt EXCEPT ![p].pc = "raised"]
          /\ UNCHANGED home
     ELSE /\ idt' = [idt EXCEPT ![p].pc = "file_exists"]
          /\ home' = [home EXCEPT !.dir = TRUE]
  /\ last_op' = NoOp
  /\ UNCHANGED <<prog_vars, pool_vars, user_id, file_ops, returned, first_id,
                 process>>

\* `if os.path.exists(user_id_file):`
FileExists(p) ==
  /\ idt[p].pc = "file_exists"
  /\ idt' = [idt EXCEPT ![p].pc = IF home.file THEN "read" ELSE "open_w"]
  /\ last_op' = NoOp
  /\ UNCHANGED <<prog_vars, pool_vars, user_id, home, file_ops, returned,
                 first_id, process>>

\* `with open(user_id_file, "r") as fr: self._user_id = fr.read().rstrip()`
ReadFile(p) ==
  /\ idt[p].pc = "read"
  /\ user_id' = Some(rstrip(home.text))
  /\ file_ops' = file_ops + 1
  /\ idt' = [idt EXCEPT ![p].pc = "return"]
  /\ last_op' = NoOp
  /\ UNCHANGED <<prog_vars, pool_vars, home, returned, first_id, process>>

\* `with open(user_id_file, "w") as fw:`
OpenWrite(p) ==
  /\ idt[p].pc = "open_w"
  /\ home' = open_w(home)
  /\ file_ops' = file_ops + 1
  /\ idt' = [idt EXCEPT ![p].pc = "generate"]
  /\ last_op' = NoOp
  /\ UNCHANGED <<prog_vars, pool_vars, user_id, returned, first_id, process>>

\* `self._user_id = _generate_user_id()`
Generate(p, uuid_hex) ==
  /\ idt[p].pc = "generate"
  /\ user_id' = Some(generate_user_id(uuid_hex))
  /\ idt' = [idt EXCEPT ![p].pc = "write"]
  /\ last_op' = NoOp
  /\ UNCHANGED <<prog_vars, pool_vars, home, file_ops, returned, first_id,
                 process>>

\* `fw.write(self._user_id)` and the end of the with block
WriteClose(p) ==
  /\ idt[p].pc = "write"
  /\ home' = write_close(home, user_id.text)
  /\ first_id' = IF first_id.some THEN first_id ELSE user_id
  /\ idt' = [idt EXCEPT ![p].pc = "return"]
  /\ last_op' = NoOp
  /\ UNCHANGED <<prog_vars, pool_vars, user_id, file_ops, returned, process>>

\* `return self._user_id`
GetUserIdReturn(p) ==
  /\ idt[p].pc = "return"
  /\ returned' = returned \cup {user_id.text}
  /\ idt' = [idt EXCEPT ![p].pc = "returned"]
  /\ last_op' = NoOp
  /\ UNCHANGED <<prog_vars, pool_vars, user_id, home, file_ops, first_id,
                 process>>

\* the statements of get_user_id after its first
IdStep(p) ==
  \/ DirExists(p)
  \/ MakeDirs(p)
  \/ FileExists(p)
  \/ ReadFile(p)
  \/ OpenWrite(p)
  \/ \E u \in UuidHexes : Generate(p, u)
  \/ WriteClose(p)
  \/ GetUserIdReturn(p)

\* get_env() called by the host application: json() calls get_user_id
GetEnv(max) ==
  /\ idt[0].calls < max
  /\ GetUserId(0)

\* get_env() returns the json text, or raises what get_user_id raised
GetEnvReturn ==
  /\ idt[0].pc \in {"returned", "raised"}
  /\ idt' = [idt EXCEPT ![0].pc = "idle"]
  /\ last_op' = NoOp
  /\ UNCHANGED <<prog_vars, pool_vars, user_id, home, file_ops, returned,
                 first_id, process>>

\* _send_log run by worker w gets to `"user_id": _env_attr.get_user_id()`
SendLogGetUserId(w) ==
  /\ worker[w].state = "send_log"
  /\ GetUserId(w)

\* _send_log goes on with the identifier: log_data is built (num_call is
\* read here) and _send_log_with_data starts the request
SendLogWithId(w) ==
  /\ worker[w].state = "send_log"
  /\ idt[w].pc = "returned"
  /\ worker' = [worker EXCEPT
       ![w].state = "request",
       ![w].num_call = event_num_call(method_counts, worker[w].job)]
  /\ idt' = [idt EXCEPT ![w] = IdleId]
  /\ last_op' = NoOp
  /\ UNCHANGED <<prog_vars, queue, discarded, completed, user_id, home,
                 file_ops, returned, first_id, process>>

\* get_user_id raised: the job ends, its error kept in a future nobody reads
SendLogIdFailed(w) ==
  /\ worker[w].state = "send_log"
  /\ idt[w].pc = "raised"
  /\ worker' = [worker EXCEPT ![w] = IdleWorker]
  /\ discarded' = discarded + 1
  /\ completed' = completed \cup {worker[w].job.call}
  /\ idt' = [idt EXCEPT ![w] = IdleId]
  /\ last_op' = NoOp
  /\ UNCHANGED <<prog_vars, queue, user_id, home, file_ops, returned,
                 first_id, process>>

\* the process ends and a new one starts on the same home directory, before
\* it has wrapped anything
ProcessRestart(max) ==
  /\ process < max
  /\ \A p \in IdThreads : idt[p].pc = "idle"
  /\ \A t \in Callers : pc[t] = "idle"
  /\ \A w \in Workers : worker[w].state = "idle"
  /\ queue = <<>> /\ refs = {} /\ method_counts = <<>> /\ ncalls = 0
  /\ backend_hostname = None /\ ~enable_override /\ discarded = 0
  /\ process' = process + 1
  /\ user_id' = NoneText
  /\ idt' = [p \in IdThreads |-> IdleId]
  /\ file_ops' = 0
  /\ last_op' = NoOp
  /\ UNCHANGED <<prog_vars, pool_vars, home, returned, first_id>>

(***************************************************************************)
(* The import of the module.                                               *)
(***************************************************************************)
\* the module-level statements, with NUM_HOPSWORKS_USAGE_EXECUTORS and
\* ENABLE_HOPSWORKS_USAGE as given; when one raises, there is no module
ModuleImport(num_executor, enable) ==
  /\ imported.status = "unloaded"
  /\ imported' = executor_from_env(num_executor)
  /\ is_enabled' = (imported'.status = "loaded" /\ IsEnabledFromEnv(enable))
  /\ last_op' = NoOp
  /\ UNCHANGED <<backend_hostname, backend_version, enable_override,
                 method_counts, refs, call_vars, pool_vars, pool_shutdown,
                 ident_vars, log_vars>>

(***************************************************************************)
(* helpers/logging_utils.py: append_rich_handler_to_logger.                *)
(***************************************************************************)
usage_vars == <<gate_vars, method_counts, refs, call_vars, pool_vars,
                pool_shutdown, ident_vars, imported>>

\* the RichHandler constructed by the c-th call
FreshHandler(c) == NoHandler - c

\* the handlers a caller may pass: those on the logger at the start and one
\* that is on no logger; NoHandler for handler=None
GivenHandlers == 1..(MaxHandlers + 1)

\* Logger.removeHandler(hdlr): `if hdlr in self.handlers:
\* self.handlers.remove(hdlr)`
removeHandler(hs, hdlr) ==
  IF \E i \in 1..Len(hs) : hs[i] = hdlr
  THEN LET at == CHOOSE i \in 1..Len(hs) :
                   hs[i] = hdlr /\ \A j \in 1..(i - 1) : hs[j] # hdlr
       IN SubSeq(hs, 1, at - 1) \o SubSeq(hs, at + 1, Len(hs))
  ELSE hs

\* Logger.addHandler(hdlr): `if not (hdlr in self.handlers):
\* self.handlers.append(hdlr)`
addHandler(hs, hdlr) ==
  IF \E i \in 1..Len(hs) : hs[i] = hdlr THEN hs ELSE Append(hs, hdlr)

\* the call up to its for loop: ImportError without the rich package, the
\* choice of rich_handler, and _rich_handler when logger is None
AppendRichHandler(logger_given, handler, remove, rich_installed) ==
  /\ lh.pc = "idle"
  /\ lh.calls < MaxLoggingCalls
  /\ IF ~rich_installed
     THEN /\ lh' = [IdleLogging EXCEPT !.pc = "raised",
                                       !.calls = lh.calls + 1,
                                       !.before = handlers]
          /\ UNCHANGED rich_handler_global
     ELSE LET rich_handler == IF handler = NoHandler
                              THEN FreshHandler(lh.calls + 1)
                              ELSE handler
          IN /\ lh' = [pc |-> IF remove THEN "for" ELSE "add",
                       calls |-> lh.calls + 1,
                       rich_handler |-> rich_handler,
                       remove |-> remove,
                       logger_given |-> logger_given,
                       i |-> 0,
                       before |-> handlers]
             /\ rich_handler_global' =
                  IF logger_given THEN rich_handler_global ELSE rich_handler
  /\ last_op' = NoOp
  /\ UNCHANGED <<usage_vars, handlers>>

\* `for handler in logger.handlers: logger.removeHandler(handler)`: the list
\* iterator takes the element at its position in the list as it is now,
\* moves on by one, and the body removes that element from the same list
ForHandler ==
  /\ lh.pc = "for"
  /\ IF lh.i < Len(handlers)
     THEN /\ handlers' = removeHandler(handlers, handlers[lh.i + 1])
          /\ lh' = [lh EXCEPT !.i = @ + 1]
     ELSE /\ lh' = [lh EXCEPT !.pc = "add"]
          /\ UNCHANGED handlers
  /\ last_op' = NoOp
  /\ UNCHANGED <<usage_vars, rich_handler_global>>

\* `logger.addHandler(rich_handler)`
AddRichHandler ==
  /\ lh.pc = "add"
  /\ handlers' = addHandler(handlers, lh.rich_handler)
  /\ lh' = [lh EXCEPT !.pc = "done"]
  /\ last_op' = NoOp
  /\ UNCHANGED <<usage_vars, rich_handler_global>>

\* `return logger`, or the ImportError reaches the caller
AppendRichHandlerReturn ==
  /\ lh.pc \in {"done", "raised"}
  /\ lh' = [lh EXCEPT !.pc = "idle"]
  /\ last_op' = NoOp
  /\ UNCHANGED <<usage_vars, handlers, rich_handler_global>>

(***************************************************************************)
(* Specifications.                                                         *)
(***************************************************************************)
NamedFuncs == {f \in Funcs : HasKey(f)}

GateStep ==
  \/ Enable
  \/ Disable
  \/ \E h \in Hostnames, v \in Versions : InitUsage(h, v)

CallStep(t, max) ==
  \/ \E ref \in refs, a \in Args : CallEnter(t, ref, a, max)
  \/ FuncRun(t)
  \/ AddRead(t)
  \/ AddWrite(t)
  \/ \E r \in RandomDraws : SampleSubmit(t, r)
  \/ CallReturn(t)

PoolStep ==
  \/ \E w \in Workers : WorkerTake(w)
  \/ \E w \in Workers, ok \in BOOLEAN : SendLog(w, ok)
  \/ \E w \in Workers, ok \in BOOLEAN : NetDone(w, ok)

\* the gate, the decorator and the wrapper: one caller, while the gate is
\* switched at any moment; the jobs stay on the queue
Next ==
  \/ GateStep
  \/ \E f \in Funcs : MethodLogger(f)
  \/ CallStep("t1", MaxCalls)

Spec == Init /\ [][Next]_vars

\* the wrapper and the executor up to interpreter exit: one caller
NextPool ==
  \/ \E f \in Funcs : MethodLogger(f)
  \/ CallStep("t1", MaxPoolCalls)
  \/ PoolStep
  \/ InterpreterExit

\* the process has counted no call yet, or 99 calls of a callable whose
\* jobs are all done
EarlierCalls == {0, 99}

InitPool ==
  /\ is_enabled = IsEnabledFromEnv("true")
  /\ backend_hostname = None
  /\ backend_version = None
  /\ \E n \in EarlierCalls, f \in NamedFuncs :
       /\ method_counts = IF n = 0 THEN <<>> ELSE Put(<<>>, KeyOf(f), n)
       /\ logged = method_counts
       /\ refs = IF n = 0 THEN {} ELSE {method_logger(f, TRUE)}
  /\ pc = [t \in Callers |-> "idle"]
  /\ cur = [t \in Callers |-> IdleCall]
  /\ queue = <<>>
  /\ worker = [w \in Workers |-> IdleWorker]
  /\ pool_shutdown = FALSE
  /\ ncalls = 0
  /\ discarded = 0
  /\ enable_override = FALSE
  /\ last_op = NoOp
  /\ user_id = NoneText
  /\ home = FreshHome
  /\ idt = [p \in IdThreads |-> IdleId]
  /\ file_ops = 0
  /\ returned = {}
  /\ first_id = NoneText
  /\ process = 1
  /\ imported = executor_from_env(DefaultNumExecutor)
  /\ completed = {}
  /\ NoLogging

SpecPool == InitPool /\ [][NextPool]_vars

\* a caller against a running executor: the caller's thread is scheduled;
\* nothing is assumed of the workers or of the network
NextBusy ==
  \/ \E f \in NamedFuncs : MethodLogger(f)
  \/ CallStep("t1", MaxBusyCalls)
  \/ PoolStep

FairPool ==
  /\ Init
  /\ [][NextBusy]_vars
  /\ WF_vars(FuncRun("t1") \/ AddRead("t1") \/ AddWrite("t1")
             \/ \E r \in RandomDraws : SampleSubmit("t1", r))

\* a caller against a running executor whose workers are scheduled and
\* whose network calls end (with a response or with an error)
NextWorkers ==
  \/ \E f \in NamedFuncs : MethodLogger(f)
  \/ CallStep("t1", MaxFairCalls)
  \/ PoolStep

FairWorkers ==
  /\ Init
  /\ [][NextWorkers]_vars
  /\ \A w \in Workers :
       /\ WF_vars(WorkerTake(w))
       /\ WF_vars(\E ok \in BOOLEAN : SendLog(w, ok))
       /\ WF_vars(\E ok \in BOOLEAN : NetDone(w, ok))

\* the counter under concurrent callers
NextCounter ==
  \/ \E f \in NamedFuncs : MethodLogger(f)
  \/ \E t \in Callers : CallStep(t, MaxCounterCalls)

SpecCounter == Init /\ [][NextCounter]_vars

\* the sampler over a long run: one caller calls a wrapper with an argument
\* for which func returns, from the start of the process on
NextSampler ==
  \/ \E f \in NamedFuncs : MethodLogger(f)
  \/ \E ref \in refs : CallEnter("t1", ref, 1, MaxSamplerCalls)
  \/ FuncRun("t1")
  \/ AddRead("t1")
  \/ AddWrite("t1")
  \/ \E r \in RandomDraws : SampleSubmit("t1", r)
  \/ CallReturn("t1")

SpecSampler == Init /\ [][NextSampler]_vars

\* the identity provider under the workers: jobs of one caller, each worker
\* running get_user_id inside _send_log
NextIdentity ==
  \/ \E f \in NamedFuncs : MethodLogger(f)
  \/ CallStep("t1", MaxIdentityCalls)
  \/ \E w \in Workers :
       \/ WorkerTake(w)
       \/ SendLogGetUserId(w)
       \/ IdStep(w)
       \/ SendLogWithId(w)
       \/ SendLogIdFailed(w)
       \/ \E ok \in BOOLEAN : NetDone(w, ok)

SpecIdentity == Init /\ [][NextIdentity]_vars

\* the identity provider called from one thread, process after process
NextEnv ==
  \/ GetEnv(MaxEnvCalls)
  \/ IdStep(0)
  \/ GetEnvReturn
  \/ ProcessRestart(MaxProcesses)

SpecEnv == Init /\ [][NextEnv]_vars

\* the import of the module under any values of the two environment
\* variables, and a caller of what was imported
InitImport ==
  /\ is_enabled = FALSE
  /\ backend_hostname = None
  /\ backend_version = None
  /\ method_counts = <<>>
  /\ refs = {}
  /\ pc = [t \in Callers |-> "idle"]
  /\ cur = [t \in Callers |-> IdleCall]
  /\ queue = <<>>
  /\ worker = [w \in Workers |-> IdleWorker]
  /\ pool_shutdown = FALSE
  /\ ncalls = 0
  /\ logged = <<>>
  /\ discarded = 0
  /\ enable_override = FALSE
  /\ last_op = NoOp
  /\ user_id = NoneText
  /\ home = FreshHome
  /\ idt = [p \in IdThreads |-> IdleId]
  /\ file_ops = 0
  /\ returned = {}
  /\ first_id = NoneText
  /\ process = 1
  /\ imported = NotImported
  /\ completed = {}
  /\ NoLogging

NextImport ==
  \/ \E n \in NumExecutorValues, v \in EnvValues : ModuleImport(n, v)
  \/ /\ imported.status = "loaded"
     /\ \/ \E f \in NamedFuncs : MethodLogger(f)
        \/ CallStep("t1", MaxImportCalls)

SpecImport == InitImport /\ [][NextImport]_vars

\* append_rich_handler_to_logger on a logger that holds k handlers
InitLogging ==
  /\ InitModule
  /\ \E k \in 0..MaxHandlers : handlers = [i \in 1..k |-> i]
  /\ lh = IdleLogging
  /\ rich_handler_global = NoHandler

NextLogging ==
  \/ \E logger_given \in BOOLEAN, handler \in GivenHandlers \cup {NoHandler},
        remove \in BOOLEAN, rich_installed \in BOOLEAN :
       AppendRichHandler(logger_given, handler, remove, rich_installed)
  \/ ForHandler
  \/ AddRichHandler
  \/ AppendRichHandlerReturn

SpecLogging == InitLogging /\ [][NextLogging]_vars

\* one caller of several wrapped functions
NextKeys ==
  \/ \E f \in KeyFuncs : MethodLogger(f)
  \/ CallStep("t1", MaxKeyCalls)

SpecKeys == Init /\ [][NextKeys]_vars

(***************************************************************************)
(* Properties.                                                             *)
(***************************************************************************)
Done(t) == pc[t] = "done"
FuncOutcome(t) == Call(cur[t].ref.func, cur[t].args)

\* C1: a call of a wrapper made by method_logger while the gate was enabled
\* gives its caller exactly what func gives for the same arguments: the same
\* value, or the same exception (type and message), whatever the counter,
\* the sampler and the executor did during the call.
C1_WrapperTransparent ==
  \A t \in Callers :
    Done(t) /\ cur[t].ref.wrap_gate => cur[t].result = FuncOutcome(t)

\* a logged call in which func raised an Exception, counted and reported
\* while a worker was running a job
C1_Witness ==
  \E t \in Callers :
    /\ Done(t) /\ cur[t].ref.wrap_gate /\ cur[t].mode = "log"
    /\ IsException(cur[t].result)
    /\ cur[t].counted = 1 /\ cur[t].submitted = 1
    /\ \E w \in Workers : worker[w].state = "request"

\* C2: no telemetry failure reaches the caller. A call whose finally block
\* failed (no key for the counter, submit refused) and a call made after
\* jobs failed in the workers still give the caller the outcome of func;
\* and the step in which a job fails changes nothing of any caller.
C2_TelemetryFailureInvisible ==
  /\ [](\A t \in Callers :
          Done(t) /\ (cur[t].tel.kind = "raise" \/ discarded > 0)
            => cur[t].result = FuncOutcome(t))
  /\ [][discarded' # discarded => UNCHANGED <<pc, cur>>]_vars

\* a call whose submit raised RuntimeError, after a job failed in a worker
C2_Witness ==
  \E t \in Callers :
    /\ Done(t) /\ cur[t].tel.type = "RuntimeError"
    /\ cur[t].counted = 1
    /\ discarded > 0

\* C3: the wrapper never waits for the executor. Once func has returned or
\* raised, the call completes, whatever the workers and the network do, and
\* it puts at most one job on the queue.
C3_WrapperNeverWaits ==
  /\ \A t \in Callers : InFinally(t) ~> Done(t)
  /\ [](\A t \in Callers : cur[t].submitted <= 1)

\* a call that completed after submitting its job while every worker was
\* busy and jobs were pending
C3_Witness ==
  \E t \in Callers :
    /\ Done(t) /\ cur[t].pool_busy /\ cur[t].submitted = 1
    /\ AllWorkersBusy /\ Len(queue) >= 2

\* C4: method_logger(f) called with the gate disabled returns f itself, for
\* good: whatever enable(), disable() and init_usage() do afterwards, a call
\* of the returned reference writes no counter and submits no job.
C4_DisabledWrapIsPermanent ==
  /\ \A r \in refs : ~r.wrap_gate => ~r.wrapped
  /\ \A t \in Callers :
       pc[t] # "idle" /\ ~cur[t].ref.wrap_gate
         => /\ cur[t].counted = 0
            /\ cur[t].submitted = 0
            /\ (Done(t) => cur[t].result = FuncOutcome(t))

\* a completed call of a reference made with the gate disabled, entered after
\* enable() with the gate enabled
C4_Witness ==
  \E t \in Callers :
    /\ Done(t) /\ ~cur[t].ref.wrap_gate
    /\ cur[t].entry_gate /\ cur[t].entry_override

\* C5: a call of a wrapper (made while the gate was enabled) that is entered
\* with the gate disabled is a passthrough: func runs with the caller's
\* arguments, no counter is written and no job is submitted.
C5_DisabledCallIsPassthrough ==
  \A t \in Callers :
    pc[t] # "idle" /\ cur[t].ref.wrapped /\ ~cur[t].entry_gate
      => /\ cur[t].counted = 0
         /\ cur[t].submitted = 0
         /\ (Done(t) => cur[t].result = FuncOutcome(t))

\* a completed call of a wrapper entered after init_usage with a hostname
\* that is not allow-listed had disabled the gate
C5_Witness ==
  \E t \in Callers :
    /\ Done(t) /\ cur[t].ref.wrapped /\ ~cur[t].entry_gate
    /\ cur[t].entry_host = "demo.hops.works" /\ ~cur[t].entry_override

\* C6 as claimed: a function wrapped while the gate is enabled counts every
\* later call, whatever the gate does after the wrap.
C6_DecidedOnceAtWrap ==
  \A t \in Callers :
    Done(t) /\ cur[t].ref.wrap_gate /\ HasKey(cur[t].ref.func)
      => cur[t].counted = 1

\* C6, amended: the gate is read at wrap time and again on entry of every
\* call of the wrapper. A call of a function (with a key) wrapped while the
\* gate was enabled is counted exactly when the gate is enabled on entry of
\* that call, and only then can it submit a job.
C6_GateReadAtEveryCall ==
  \A t \in Callers :
    Done(t) /\ cur[t].ref.wrap_gate /\ HasKey(cur[t].ref.func)
      => /\ cur[t].counted = (IF cur[t].entry_gate THEN 1 ELSE 0)
         /\ cur[t].submitted <= cur[t].counted

\* a counted call of a wrapper, entered after a non-target init_usage and a
\* later enable()
C6_Witness ==
  \E t \in Callers :
    /\ Done(t) /\ cur[t].ref.wrap_gate /\ HasKey(cur[t].ref.func)
    /\ cur[t].entry_gate /\ cur[t].counted = 1
    /\ cur[t].entry_host = "demo.hops.works" /\ cur[t].entry_override

\* C7: init_usage(hostname, backend_version) stores both arguments and sets
\* the gate to (gate before the call and hostname = c.app.hopsworks.ai); it
\* never switches a disabled gate on.
C7_InitUsageNarrowsGate ==
  last_op.op = "init_usage"
    => /\ backend_hostname = last_op.hostname
       /\ backend_version = last_op.version
       /\ is_enabled = (last_op.gate_before
                        /\ last_op.hostname = "c.app.hopsworks.ai")
       /\ (~last_op.gate_before => ~is_enabled)

\* init_usage with the allow-listed hostname on a gate that disable() had
\* switched off after an enable()
C7_Witness ==
  /\ last_op.op = "init_usage"
  /\ last_op.hostname = "c.app.hopsworks.ai"
  /\ ~last_op.gate_before
  /\ refs # {}

\* C8 as claimed: a call is counted or submits a job only if the stored
\* backend hostname is the allow-listed one.
C8_OnlyTargetDeployment ==
  \A t \in Callers :
    cur[t].counted > 0 \/ cur[t].submitted > 0
      => cur[t].entry_host \in {"c.app.hopsworks.ai"}

\* C8, amended: a call is counted or submits a job only if, when it was
\* entered, the stored backend hostname was the allow-listed one, or
\* init_usage had not run yet, or enable() had been called after the last
\* init_usage.
C8_TargetUnlessOverridden ==
  \A t \in Callers :
    cur[t].counted > 0 \/ cur[t].submitted > 0
      => \/ cur[t].entry_host \in {"c.app.hopsworks.ai"}
         \/ cur[t].entry_host = None
         \/ cur[t].entry_override

\* a counted and reported call entered after init_usage with the
\* allow-listed hostname, with no enable() since
C8_Witness ==
  \E t \in Callers :
    /\ cur[t].counted = 1 /\ cur[t].submitted = 1
    /\ cur[t].entry_host = "c.app.hopsworks.ai" /\ ~cur[t].entry_override

\* a logged call of a callable with key k that has not yet stored its count
Uncounted(t, k) ==
  /\ pc[t] \in {"func", "add", "add_write"}
  /\ cur[t].mode = "log"
  /\ HasKey(cur[t].ref.func) /\ KeyOf(cur[t].ref.func) = k

\* C9: with one caller (sequential execution) and the gate enabled, the
\* counter of a key equals the number of calls made of it: every call adds
\* exactly 1, whether func returns or raises, sampled or not.
C9_SequentialCountExact ==
  \A f \in NamedFuncs :
    Get(method_counts, KeyOf(f))
      = Get(logged, KeyOf(f))
        - Cardinality({t \in Callers : Uncounted(t, KeyOf(f))})

\* the 101st call of a callable, counted although the sampler left it
\* unreported
C9_Witness ==
  \E t \in Callers :
    /\ Done(t) /\ cur[t].counted = 1
    /\ cur[t].submitted = 0 /\ ~pool_shutdown
    /\ Get(method_counts, KeyOf(cur[t].ref.func)) = 101

\* C10 as claimed: when no call is in progress, the counter of a key equals
\* the number of calls made of it, also when callers run in parallel.
C10_NoLostUpdate ==
  \A f \in NamedFuncs :
    (\A t \in Callers : ~Uncounted(t, KeyOf(f)))
      => Get(method_counts, KeyOf(f)) = Get(logged, KeyOf(f))

\* C11 as claimed: between two successive states the count stored for a key
\* never decreases and is never reset, whatever is wrapped or called and
\* whatever enable(), disable() and init_usage() do, also when calls run in
\* parallel on several threads.
C11_CountNeverDecreases ==
  [][\A f \in NamedFuncs :
       Get(method_counts', KeyOf(f)) >= Get(method_counts, KeyOf(f))]_vars

\* C12 as claimed: every call of a wrapper entered with the gate enabled in
\* which func raises puts one job on the queue, whatever the count of the
\* key and whatever should_sample says.
C12_EveryRaiseSubmits ==
  \A t \in Callers :
    Done(t) /\ cur[t].mode = "log" /\ cur[t].out.kind = "raise"
      => cur[t].submitted = 1

\* C12, amended: a call of a wrapper entered with the gate enabled in which
\* func (a callable with a key) raises an exception derived from Exception
\* reaches _executor.submit whatever the count and whatever should_sample
\* says: it puts exactly one job on the queue, carrying the exception,
\* unless the interpreter is exiting and submit itself raises RuntimeError.
C12_ExceptionReachesSubmit ==
  \A t \in Callers :
    Done(t) /\ cur[t].mode = "log" /\ IsException(cur[t].out)
            /\ HasKey(cur[t].ref.func)
      => \/ /\ cur[t].submitted = 1
            /\ cur[t].tel = NoOutcome
         \/ /\ cur[t].submitted = 0
            /\ cur[t].tel.type = "RuntimeError"
            /\ pool_shutdown

\* the 101st call of a callable raised ValueError and put its job on the
\* queue although should_sample said no for it
C12_Witness ==
  \E t \in Callers :
    /\ Done(t) /\ cur[t].mode = "log" /\ IsException(cur[t].out)
    /\ Get(method_counts, KeyOf(cur[t].ref.func)) = 101
    /\ ~cur[t].would_sample
    /\ cur[t].submitted = 1
    /\ \E i \in 1..Len(queue) :
         queue[i].call = cur[t].call_no /\ queue[i].exception = cur[t].out

\* C13 as claimed: should_sample is asked about the count of the earlier
\* calls, before the current call is counted: starting from count 0, each of
\* the first 100 calls in which func returns is sampled and puts a job on
\* the queue; only from the 101st on may such a call go unreported.
C13_FirstHundredSampled ==
  \A t \in Callers :
    /\ Done(t) /\ cur[t].mode = "log" /\ cur[t].out.kind = "return"
    /\ cur[t].counted = 1
    /\ Get(method_counts, KeyOf(cur[t].ref.func)) <= SampleAlways
    => cur[t].would_sample /\ cur[t].submitted = 1

\* C13, amended: add runs before should_sample, so the sampler is asked about
\* the count that includes the current call. Starting from count 0, each of
\* the first 99 calls in which func returns is sampled and puts a job on the
\* queue; a call that goes unreported is the 100th or a later one.
C13_FirstNinetyNineSampled ==
  \A t \in Callers :
    /\ Done(t) /\ cur[t].mode = "log" /\ cur[t].out.kind = "return"
    /\ cur[t].counted = 1
    => LET n == Get(method_counts, KeyOf(cur[t].ref.func)) IN
         /\ n = cur[t].read + 1
         /\ n < SampleAlways => cur[t].would_sample /\ cur[t].submitted = 1
         /\ cur[t].submitted = 0 => n >= SampleAlways

\* the 100th call of the process returned and went unreported: the 99 jobs
\* of the earlier calls are on the queue
C13_Witness ==
  \E t \in Callers :
    /\ Done(t) /\ cur[t].mode = "log" /\ cur[t].out.kind = "return"
    /\ cur[t].call_no = SampleAlways
    /\ Get(method_counts, KeyOf(cur[t].ref.func)) = SampleAlways
    /\ cur[t].submitted = 0
    /\ Len(queue) = SampleAlways - 1

\* the jobs on the queue that call number n submitted
JobsOfCall(n) == {i \in 1..Len(queue) : queue[i].call = n}

\* C14: with the gate enabled and the counter of f at 0, one call of the
\* wrapper gives the caller what f gives (f(1) = 2), leaves the counter at 1
\* and has put exactly one job on the queue; and no call of a wrapper ever
\* submits more than one job.
C14_FirstCallCountedAndQueuedOnce ==
  /\ \A t \in Callers :
       /\ Done(t) /\ cur[t].mode = "log" /\ HasKey(cur[t].ref.func)
       /\ cur[t].read = 0
       => /\ cur[t].result = FuncOutcome(t)
          /\ cur[t].args = 1 => cur[t].result = Return(2)
          /\ Get(method_counts, KeyOf(cur[t].ref.func)) = 1
          /\ cur[t].submitted = 1
          /\ Cardinality(JobsOfCall(cur[t].call_no)) = 1
  /\ \A t \in Callers : cur[t].submitted <= 1
  /\ \A n \in 1..ncalls : Cardinality(JobsOfCall(n)) <= 1

\* f(1) called through its wrapper with the gate enabled and no call counted
\* before: the caller has 2, the counter is 1 and the queue holds the job
C14_Witness ==
  \E t \in Callers :
    /\ Done(t) /\ cur[t].mode = "log" /\ cur[t].entry_gate
    /\ cur[t].args = 1 /\ cur[t].result = Return(2)
    /\ method_counts = Put(<<>>, KeyOf(cur[t].ref.func), 1)
    /\ Len(queue) = 1 /\ queue[1].call = cur[t].call_no

\* C15 as claimed: the identifier is resolved once per process, also when
\* two workers run their first _send_log jobs at the same time: the user_id
\* file is opened (read or written) at most once, and every get_user_id
\* call returns the same, non-empty identifier.
C15_UserIdResolvedOnce ==
  /\ file_ops <= 1
  /\ Cardinality(returned) <= 1
  /\ <<>> \notin returned

\* C16: get_user_id is idempotent and round-trips through the user_id file.
\* Called from one thread, it returns the same non-empty identifier at every
\* call of a process, and a later process on the same home directory
\* returns the identifier that the first process generated and wrote: what
\* is read back from the file is what was written.
C16_UserIdRoundTrip ==
  /\ \A x \in returned : x # <<>> /\ first_id.some /\ x = first_id.text
  /\ \A p \in IdThreads :
       idt[p].pc \in {"return", "returned"}
         => /\ user_id = first_id
            /\ home.file /\ rstrip(home.text) = first_id.text
            /\ home.text = generate_user_id(SubSeq(home.text,
                               Len(IdPrefix) + 1, Len(home.text)))

\* the second get_env() of the second process has returned: the process read
\* the file once and has the identifier the first process wrote
C16_Witness ==
  /\ process = 2
  /\ idt[0].pc = "returned" /\ idt[0].calls = 2
  /\ file_ops = 1
  /\ first_id.some /\ Len(first_id.text) = Len(IdPrefix) + ShortUuidLen
  /\ returned = {first_id.text}

\* the text is a decimal integer greater than 0
IsPositiveInteger(text) == int(text).ok /\ int(text).value > 0

\* C17 as claimed: a configuration error does not crash the host. When
\* NUM_HOPSWORKS_USAGE_EXECUTORS is not a positive integer, the import of
\* the module completes without raising and leaves telemetry disabled.
C17_BadPoolSizeDisablesTelemetry ==
  imported.status # "unloaded" /\ ~IsPositiveInteger(imported.num_executor)
    => imported.status = "loaded" /\ ~is_enabled

\* C18 as claimed: counts are kept per wrapped function. For two distinct
\* wrapped functions f and g, the step in which a call of f stores its count
\* leaves get_count(g) unchanged, the keys of f and g being different.
C18_CountsPerFunction ==
  [][\A t \in Callers :
       pc[t] = "add_write" /\ pc'[t] = "sample"
         => \A g \in KeyFuncs :
              g # cur[t].ref.func
                => /\ KeyOf(g) # KeyOf(cur[t].ref.func)
                   /\ get_count(method_counts', g)
                        = get_count(method_counts, g)]_vars

\* C19: the num_call of an event is the count of the key at the moment the
\* worker builds the event, not the count at call time. With one caller it
\* is at least the count the reported call stored, and at most the count
\* now; calls counted before the job runs make it larger.
C19_NumCallReadAtReport ==
  /\ [][\A w \in Workers :
          worker[w].state = "send_log" /\ worker'[w].state = "request"
            => worker'[w].num_call
                 = Get(method_counts, KeyOf(worker[w].job.func))]_vars
  /\ [](\A w \in Workers :
          worker[w].state = "request"
            => /\ worker[w].num_call >= worker[w].job.posted
               /\ worker[w].num_call
                    <= Get(method_counts, KeyOf(worker[w].job.func)))

\* the events of two different calls of one function are being sent with
\* the same num_call, larger than the count the first of them stored
C19_Witness ==
  \E w1, w2 \in Workers :
    /\ worker[w1].state = "request" /\ worker[w2].state = "request"
    /\ worker[w1].job.func = worker[w2].job.func
    /\ worker[w1].job.call < worker[w2].job.call
    /\ worker[w1].job.posted < worker[w2].job.posted
    /\ worker[w1].num_call = worker[w2].num_call
    /\ worker[w1].num_call > worker[w1].job.posted

\* the job of call number n is on the queue / is being run by a worker
Pending(n) == \E i \in 1..Len(queue) : queue[i].call = n
Running(n) ==
  \E w \in Workers : worker[w].state # "idle" /\ worker[w].job.call = n

\* C20: no job is dropped or cancelled. While the process runs, with the
\* workers scheduled and every network call ending, every job submitted is
\* taken by a worker and runs to its end (sent, or failed and discarded):
\* a pending job stays pending until a worker runs it, a running job stays
\* running until it is completed, and every pending job is eventually
\* completed.
C20_EveryJobRunsToCompletion ==
  /\ \A n \in 1..MaxFairCalls : Pending(n) ~> (n \in completed)
  /\ [][\A n \in 1..MaxFairCalls :
          /\ Pending(n) => Pending(n)' \/ Running(n)'
          /\ Running(n) => Running(n)' \/ n \in completed']_vars
  /\ [](\A n \in completed : ~Pending(n) /\ ~Running(n))

\* every call of the run has had its job completed, some sent and some
\* discarded after a failure; the queue is empty and the workers are idle
C20_Witness ==
  /\ ncalls = MaxFairCalls
  /\ completed = 1..MaxFairCalls
  /\ discarded > 0 /\ discarded < MaxFairCalls
  /\ queue = <<>> /\ \A w \in Workers : worker[w].state = "idle"

\* every worker of the executor is inside its network call
AllInRequest == \A w \in Workers : worker[w].state = "request"

\* C21: no timeout bounds the network call, so the executor can be
\* exhausted. From the moment every worker (2 by default) is inside a
\* network call, and for as long as none of these calls returns, no pending
\* job is started and no event is completed; calls of wrappers still
\* complete with the outcome of func, and every call that reports adds one
\* job to the pending ones.
C21_HungNetworkExhaustsPool ==
  /\ [][AllInRequest /\ completed' = completed
          => /\ worker' = worker
             /\ discarded' = discarded
             /\ \A n \in 1..MaxBusyCalls : Pending(n) => Pending(n)'
             /\ Len(queue') =
                  Len(queue)
                  + (IF \E t \in Callers :
                          cur'[t].submitted > cur[t].submitted
                     THEN 1 ELSE 0)]_vars
  /\ \A t \in Callers : (AllInRequest /\ InFinally(t)) ~> Done(t)
  /\ [](\A t \in Callers :
          Done(t) /\ AllInRequest => cur[t].result = FuncOutcome(t))

\* both workers are inside network calls that have not returned, the jobs of
\* the two later calls are pending and the last call has completed
C21_Witness ==
  /\ AllInRequest
  /\ completed = {}
  /\ ncalls = MaxBusyCalls
  /\ Len(queue) = MaxBusyCalls - NumExecutors
  /\ \E t \in Callers :
       /\ Done(t) /\ cur[t].submitted = 1
       /\ cur[t].result = FuncOutcome(t)
       /\ Pending(cur[t].call_no)

\* the workers between the start of _conn.request and the end of
\* _conn.getresponse().read() on the one module-level connection
OnConnection == {w \in Workers : worker[w].state = "request"}

\* C22 as claimed: with the default executor of 2 workers, at most one job
\* at a time is between sending its request and reading its response on
\* _conn, so the network steps of two jobs never interleave.
C22_OneJobOnConnection == Cardinality(OnConnection) <= 1

\* C23 as claimed: append_rich_handler_to_logger called with
\* remove_existing_handlers=True on a logger that holds k >= 0 handlers
\* leaves the logger with exactly one handler, the rich handler: the loop
\* removes every handler that was there before the call.
C23_OnlyRichHandlerLeft ==
  lh.pc = "done" /\ lh.remove => handlers = <<lh.rich_handler>>

====
